---- MODULE Spec2Model ----
(***************************************************************************)
(* Model of fetch.py: the visa-bulletin fetcher, the EB1/India date        *)
(* extractor and the corpus scan that builds the plotted series.           *)
(*                                                                         *)
(* Text is a sequence of one-character strings, so that strip(), upper(),  *)
(* lower(), "in", isdigit(), int(), str(), endswith(), replace() and       *)
(* strptime() are computed character by character as Python computes them. *)
(* A date is <<year, month, day>>; Python's None is the empty tuple.       *)
(* A document is the parse tree BeautifulSoup gives: a sequence of tables, *)
(* a table a sequence of rows (tr), a row a sequence of cell texts (td).   *)
(***************************************************************************)
EXTENDS Integers, Sequences, FiniteSets, TLC

VARIABLES
    html,        \* extractor input: the parsed document
    bdate,       \* extractor input: bulletin_date
    extracted,   \* the extractor's loop: [pc, t, dates]
    now,         \* datetime.now(): [year, month]
    past_years,  \* main's past_years argument
    store,       \* SAVE_DIR: file path -> content (a document id); DOMAIN = files present
    store0,      \* the store as it was when the current run started
    main_pc,     \* where main() is
    futures,     \* the executor's futures, in submission order
    exc,         \* the exception future.result() re-raised in main, if any
    netLog,      \* requests.get calls of this run: [year, month, existed]
    saveLog,     \* save_bulletin_html calls of this run: [year, month]
    run,         \* number of the current run of the program
    bulletins,   \* collect_and_plot_eb1_dates: the list of (bulletin_date, file_path)
    bk,          \* collect_and_plot_eb1_dates: the next element of bulletins to extract
    series       \* collect_and_plot_eb1_dates: eb1_dates, [raised, records]

vars == <<html, bdate, extracted, now, past_years, store, store0, main_pc,
          futures, exc, netLog, saveLog, run, bulletins, bk, series>>

extractVars == <<html, bdate, extracted>>
mainVars == <<now, past_years, store, store0, main_pc, futures, exc, netLog,
              saveLog, run, bulletins, bk, series>>

(***************************************************************************)
(* Text primitives                                                         *)
(***************************************************************************)
None == <<>>

LowerLetters == <<"a","b","c","d","e","f","g","h","i","j","k","l","m",
                  "n","o","p","q","r","s","t","u","v","w","x","y","z">>
UpperLetters == <<"A","B","C","D","E","F","G","H","I","J","K","L","M",
                  "N","O","P","Q","R","S","T","U","V","W","X","Y","Z">>
Digits == <<"0","1","2","3","4","5","6","7","8","9">>

IndexOf(seq, x) == IF \E i \in 1..Len(seq) : seq[i] = x
                   THEN CHOOSE i \in 1..Len(seq) : seq[i] = x /\ \A j \in 1..(i-1) : seq[j] # x
                   ELSE 0

UpperChar(c) == IF IndexOf(LowerLetters, c) > 0 THEN UpperLetters[IndexOf(LowerLetters, c)] ELSE c
LowerChar(c) == IF IndexOf(UpperLetters, c) > 0 THEN LowerLetters[IndexOf(UpperLetters, c)] ELSE c
Upper(s) == [i \in 1..Len(s) |-> UpperChar(s[i])]
Lower(s) == [i \in 1..Len(s) |-> LowerChar(s[i])]

IsDigitChar(c) == IndexOf(Digits, c) > 0
DigitVal(c) == IndexOf(Digits, c) - 1
IsSpace(c) == c \in {" ", "\t", "\n"}

RECURSIVE LStrip(_)
LStrip(s) == IF Len(s) > 0 /\ IsSpace(s[1]) THEN LStrip(Tail(s)) ELSE s
RECURSIVE RStrip(_)
RStrip(s) == IF Len(s) > 0 /\ IsSpace(s[Len(s)]) THEN RStrip(SubSeq(s, 1, Len(s) - 1)) ELSE s
\* cell.get_text(strip=True) of a cell that holds one text node
GetTextStrip(cell) == RStrip(LStrip(cell))

\* Python's  sub in s
Contains(s, sub) == \E i \in 1..(Len(s) - Len(sub) + 1) : SubSeq(s, i, i + Len(sub) - 1) = sub

(***************************************************************************)
(* datetime                                                                *)
(***************************************************************************)
IsLeap(y) == (y % 4 = 0) /\ ((y % 100 # 0) \/ (y % 400 = 0))
DaysInMonth(y, m) == IF m = 2 THEN (IF IsLeap(y) THEN 29 ELSE 28)
                     ELSE IF m \in {4, 6, 9, 11} THEN 30 ELSE 31
\* datetime(y, m, d) raises ValueError unless this holds (MINYEAR 1, MAXYEAR 9999)
ValidDate(y, m, d) == /\ y >= 1 /\ y <= 9999
                      /\ m >= 1 /\ m <= 12
                      /\ d >= 1 /\ d <= DaysInMonth(y, m)

\* tuple comparison of two dates
DateLess(a, b) == \/ a[1] < b[1]
                  \/ a[1] = b[1] /\ a[2] < b[2]
                  \/ a[1] = b[1] /\ a[2] = b[2] /\ a[3] < b[3]

\* the abbreviated month names %b matches (C locale), lower-cased as the regex is
MonthAbbr == << <<"j","a","n">>, <<"f","e","b">>, <<"m","a","r">>, <<"a","p","r">>,
                <<"m","a","y">>, <<"j","u","n">>, <<"j","u","l">>, <<"a","u","g">>,
                <<"s","e","p">>, <<"o","c","t">>, <<"n","o","v">>, <<"d","e","c">> >>

\* %d: the alternatives of  3[0-1]|[1-2]\d|0[1-9]|[1-9]| [1-9]  in order; the
\* length the alternative consumes at the head of s, 0 when it does not match
DayAlt(s, k) ==
    CASE k = 1 -> IF Len(s) >= 2 /\ s[1] = "3" /\ s[2] \in {"0", "1"} THEN 2 ELSE 0
      [] k = 2 -> IF Len(s) >= 2 /\ s[1] \in {"1", "2"} /\ IsDigitChar(s[2]) THEN 2 ELSE 0
      [] k = 3 -> IF Len(s) >= 2 /\ s[1] = "0" /\ IsDigitChar(s[2]) /\ s[2] # "0" THEN 2 ELSE 0
      [] k = 4 -> IF Len(s) >= 1 /\ IsDigitChar(s[1]) /\ s[1] # "0" THEN 1 ELSE 0
      [] OTHER -> IF Len(s) >= 2 /\ s[1] = " " /\ IsDigitChar(s[2]) /\ s[2] # "0" THEN 2 ELSE 0

\* %b%y after a day of n characters: three letters of a month name, two digits
RestMatches(s, n) == /\ Len(s) >= n + 5
                     /\ IndexOf(MonthAbbr, Lower(SubSeq(s, n + 1, n + 3))) > 0
                     /\ IsDigitChar(s[n + 4]) /\ IsDigitChar(s[n + 5])

\* the first alternative of %d under which the whole pattern matches a prefix of s
RECURSIVE RegexDayLen(_, _)
RegexDayLen(s, k) == IF k > 5 THEN 0
                     ELSE IF DayAlt(s, k) > 0 /\ RestMatches(s, DayAlt(s, k)) THEN DayAlt(s, k)
                     ELSE RegexDayLen(s, k + 1)

DayValue(s, n) == IF n = 1 THEN DigitVal(s[1])
                  ELSE (IF s[1] = " " THEN 0 ELSE 10 * DigitVal(s[1])) + DigitVal(s[2])
\* %y: 69..99 are 19xx, 00..68 are 20xx
YearValue(yy) == IF yy <= 68 THEN 2000 + yy ELSE 1900 + yy

\* datetime.strptime(s, "%d%b%y"): [ok |-> FALSE] is ValueError
Strptime(s) ==
    LET n == RegexDayLen(s, 1) IN
    IF n = 0 THEN [ok |-> FALSE, date |-> None]                 \* does not match format
    ELSE IF Len(s) # n + 5 THEN [ok |-> FALSE, date |-> None]   \* unconverted data remains
    ELSE LET d == DayValue(s, n)
             m == IndexOf(MonthAbbr, Lower(SubSeq(s, n + 1, n + 3)))
             y == YearValue(10 * DigitVal(s[n + 4]) + DigitVal(s[n + 5]))
         IN IF ValidDate(y, m, d) THEN [ok |-> TRUE, date |-> <<y, m, d>>]
            ELSE [ok |-> FALSE, date |-> None]                  \* day is out of range for month

(***************************************************************************)
(* The date extractor                                                      *)
(***************************************************************************)
T_C == <<"C">>
T_U == <<"U">>
T_1st == <<"1","s","t">>
T_INDIA == <<"I","N","D","I","A">>

\* DecodeIndiaDate without its "C" branch: the sentinel falls through to strptime
DecodeIndiaDateNoCurrent(india_date, bulletin_date) ==
    IF india_date = T_U THEN None
    ELSE IF Strptime(india_date).ok THEN Strptime(india_date).date
    ELSE None

\* lines 148-156: the decoding of the India cell of the "1st" row
DecodeIndiaDate(india_date, bulletin_date) ==
    IF india_date = T_C THEN bulletin_date
    ELSE IF india_date = T_U THEN None
    ELSE IF Strptime(india_date).ok THEN Strptime(india_date).date
    ELSE None

\* lines 136-139: index (0-based) of the first header containing INDIA, -1 for None
IndiaColumnIndex(headers) ==
    IF \E i \in 1..Len(headers) : Contains(Upper(GetTextStrip(headers[i])), T_INDIA)
    THEN (CHOOSE i \in 1..Len(headers) :
             /\ Contains(Upper(GetTextStrip(headers[i])), T_INDIA)
             /\ \A j \in 1..(i-1) : ~Contains(Upper(GetTextStrip(headers[j])), T_INDIA)) - 1
    ELSE -1

\* ScanRows answering [None] where the code answers []: at a "1st" row too
\* short to reach the India column, and when the rows run out
RECURSIVE ScanRowsPadNone(_, _, _, _)
ScanRowsPadNone(table, r, india_column_index, bulletin_date) ==
    IF r > Len(table) THEN <<None>>
    ELSE LET cells == table[r] IN
         IF Len(cells) > 0 /\ Lower(GetTextStrip(cells[1])) = T_1st
         THEN IF Len(cells) > india_column_index
              THEN <<DecodeIndiaDate(GetTextStrip(cells[india_column_index + 1]), bulletin_date)>>
              ELSE <<None>>
         ELSE ScanRowsPadNone(table, r + 1, india_column_index, bulletin_date)

\* lines 143-157: the loop over table.find_all("tr")[1:], from row r on
RECURSIVE ScanRows(_, _, _, _)
ScanRows(table, r, india_column_index, bulletin_date) ==
    IF r > Len(table) THEN <<>>
    ELSE LET cells == table[r] IN
         IF /\ Len(cells) > 0
            /\ Lower(GetTextStrip(cells[1])) = T_1st
            /\ Len(cells) > india_column_index
         THEN <<DecodeIndiaDate(GetTextStrip(cells[india_column_index + 1]), bulletin_date)>>
         ELSE ScanRows(table, r + 1, india_column_index, bulletin_date)

\* extract_eb1_dates_from_table: [raised |-> TRUE] is the AttributeError of
\* header_row.find_all when table.find("tr") is None
extract_eb1_dates_from_table(table, bulletin_date) ==
    IF Len(table) = 0 THEN [raised |-> TRUE, val |-> <<>>]
    ELSE LET india_column_index == IndiaColumnIndex(table[1]) IN
         IF india_column_index = -1 THEN [raised |-> FALSE, val |-> <<>>]
         ELSE [raised |-> FALSE, val |-> ScanRows(table, 2, india_column_index, bulletin_date)]

\* lines 174-179: the loop over the tables, from table t on, with dates so far
RECURSIVE ScanTables(_, _, _, _)
ScanTables(tables, t, dates, bulletin_date) ==
    IF t > Len(tables) THEN [raised |-> FALSE, dates |-> dates]
    ELSE LET e == extract_eb1_dates_from_table(tables[t], bulletin_date) IN
         IF e.raised THEN [raised |-> TRUE, dates |-> <<>>]
         ELSE LET d2 == IF Len(e.val) > 0 THEN Append(dates, e.val[1]) ELSE dates IN
              IF Len(d2) = 2 THEN [raised |-> FALSE, dates |-> d2]
              ELSE ScanTables(tables, t + 1, d2, bulletin_date)

\* lines 180-181
RECURSIVE PadDates(_)
PadDates(dates) == IF Len(dates) < 2 THEN PadDates(Append(dates, None)) ELSE dates

extract_eb1_final_action_and_filing_dates_from_html(content, bulletin_date) ==
    LET s == ScanTables(content, 1, <<>>, bulletin_date) IN
    IF s.raised THEN s ELSE [raised |-> FALSE, dates |-> PadDates(s.dates)]

(***************************************************************************)
(* Extractor inputs                                                        *)
(***************************************************************************)
MaxTables == 3
MaxRows == 2

SeqsUpTo(S, n) == UNION {[1..k -> S] : k \in 0..n}

T_2nd == <<"2","n","d">>
T_1ST_ws == <<" ","1","S","T","\n">>
T_EB == <<"E","B">>
T_CHINA == <<"C","H","I","N","A">>
T_MEXICO == <<"M","E","X","I","C","O">>
T_india_ws == <<"\n","I","n","d","i","a"," ">>
T_15JAN24 == <<"1","5","J","A","N","2","4">>
T_01FEB24 == <<"0","1","F","E","B","2","4">>
T_junk == <<"N","/","A">>

HdrIndia == <<T_EB, T_CHINA, T_INDIA>>
HdrNoIndia == <<T_EB, T_CHINA, T_MEXICO>>

\* the shapes of table the multi-table documents are built from
TblNoRows == <<>>
TblEmptyHeader == << <<>>, <<T_1st, T_C, T_C>> >>
TblNoIndia == << HdrNoIndia, <<T_1st, T_C, T_15JAN24>> >>
TblC == << HdrIndia, <<T_1st, T_C, T_C>> >>
TblU == << HdrIndia, <<T_1st, T_C, T_U>> >>
TblDate1 == << HdrIndia, <<T_1st, T_C, T_15JAN24>> >>
TblDate2 == << HdrIndia, <<T_2nd, T_C, T_C>>, <<T_1st, T_C, T_01FEB24>> >>
TblJunk == << HdrIndia, <<T_1st, T_C, T_junk>> >>
TblNo1st == << HdrIndia, <<T_2nd, T_C, T_01FEB24>> >>
TblShort1st == << HdrIndia, <<T_1st, T_C>> >>
SimpleTables == {TblNoRows, TblEmptyHeader, TblNoIndia, TblC, TblU, TblDate1, TblDate2,
                 TblJunk, TblNo1st, TblShort1st}

\* single tables of every header and every run of at most MaxRows rows
Headers == { <<>>, HdrIndia, HdrNoIndia, <<T_EB, T_india_ws, T_CHINA>>, <<T_INDIA, T_INDIA>> }
RowSet == { <<>>, <<T_2nd, T_15JAN24, T_15JAN24>>, <<T_1st>>, <<T_1st, T_C>>,
            <<T_1st, T_C, T_15JAN24>>, <<T_1ST_ws, T_01FEB24, T_U>>, <<T_1st, T_U, T_C, T_C>> }

\* India-cell texts: every day piece, month piece and year piece put together,
\* and the codes that are no date at all
DayPieces == { <<"1","5">>, <<"0","1">>, <<"3","1">>, <<"2","9">>, <<"5">>, <<"0">>,
               <<"0","0">>, <<"3","2">>, <<"1","5","0">>, <<>> }
MonthPieces == { <<"J","A","N">>, <<"j","a","n">>, <<"F","e","b">>, <<"A","P","R">>,
                 <<"J","A","N","U">>, <<"J","A","X">>, <<>> }
YearPieces == { <<"2","4">>, <<"2","3">>, <<"6","9">>, <<"4">>, <<"2","0","2","4">> }
CodeTexts == { d \o m \o y : <<d, m, y>> \in DayPieces \X MonthPieces \X YearPieces }
                \cup { T_C, T_U, <<"c">>, <<"u">>, <<>>, <<"C","U">>, T_junk,
                       <<" ","C","\n">>, <<"\t","U">>, <<" ","5","J","A","N","2","4"," ">>,
                       <<"1","5"," ","J","A","N","2","4">>, <<"1","5","J","A","N"," ","2","4">> }

CodeTable(code) == << HdrIndia, <<T_1st, T_C, code>> >>

Documents == SeqsUpTo(SimpleTables, MaxTables)
                \cup { << <<h>> \o rows >> : <<h, rows>> \in Headers \X SeqsUpTo(RowSet, MaxRows) }
                \cup { << CodeTable(code) >> : code \in CodeTexts }

BulletinDates == { <<2023, 5, 1>>, <<2024, 3, 1>> }

(***************************************************************************)
(* The extractor as a process: one loop iteration per step                 *)
(***************************************************************************)
\* the state main() and its pool are in while only the extractor runs
MainIdle ==
    /\ now = [year |-> 2024, month |-> 1]
    /\ past_years = 0
    /\ store = <<>>
    /\ store0 = <<>>
    /\ main_pc = "idle"
    /\ futures = <<>>
    /\ exc = FALSE
    /\ netLog = {}
    /\ saveLog = {}
    /\ run = 0
    /\ bulletins = <<>>
    /\ bk = 1
    /\ series = [raised |-> FALSE, records |-> <<>>]

InitExtract ==
    /\ html \in Documents
    /\ bdate \in BulletinDates
    /\ extracted = [pc |-> "loop", t |-> 1, dates |-> <<>>]
    /\ MainIdle

\* lines 174-179: one iteration of  for table in tables
ExtractTable ==
    /\ extracted.pc = "loop"
    /\ extracted.t <= Len(html)
    /\ LET e == extract_eb1_dates_from_table(html[extracted.t], bdate)
           d2 == IF Len(e.val) > 0 THEN Append(extracted.dates, e.val[1]) ELSE extracted.dates
       IN extracted' = IF e.raised THEN [pc |-> "raised", t |-> extracted.t, dates |-> extracted.dates]
                       ELSE IF Len(d2) = 2 THEN [pc |-> "returned", t |-> extracted.t, dates |-> d2]
                       ELSE [pc |-> "loop", t |-> extracted.t + 1, dates |-> d2]
    /\ UNCHANGED <<html, bdate>>
    /\ UNCHANGED mainVars

\* lines 180-182: the loop ran out of tables; pad and return
ExtractReturn ==
    /\ extracted.pc = "loop"
    /\ extracted.t > Len(html)
    /\ extracted' = [pc |-> "returned", t |-> extracted.t, dates |-> PadDates(extracted.dates)]
    /\ UNCHANGED <<html, bdate>>
    /\ UNCHANGED mainVars

NextExtract == ExtractTable \/ ExtractReturn

SpecExtract == InitExtract /\ [][NextExtract]_vars

(***************************************************************************)
(* Claims about the extractor (checked under SpecExtract)                  *)
(***************************************************************************)
Min(S) == CHOOSE x \in S : \A y \in S : x <= y

\* the two slots filled by position from per-table results (each <<>> or <<x>>)
SlotsOf(res) ==
    LET Y == {i \in 1..Len(res) : Len(res[i]) > 0} IN
    << IF Y = {} THEN None ELSE res[Min(Y)][1],
       IF Cardinality(Y) < 2 THEN None ELSE res[Min(Y \ {Min(Y)})][1] >>

HeaderHasIndia(tbl) ==
    Len(tbl) > 0 /\ \E i \in 1..Len(tbl[1]) : Contains(Upper(GetTextStrip(tbl[1][i])), T_INDIA)
IndiaCol(tbl) == Min({i \in 1..Len(tbl[1]) : Contains(Upper(GetTextStrip(tbl[1][i])), T_INDIA)})
Is1stRow(row) == Len(row) > 0 /\ Lower(GetTextStrip(row[1])) = T_1st
Rows1st(tbl) == {r \in 2..Len(tbl) : Is1stRow(tbl[r])}
\* an India column, but no "1st" row or a first "1st" row that does not reach it
MissingStructure(tbl) ==
    /\ HeaderHasIndia(tbl)
    /\ \/ Rows1st(tbl) = {}
       \/ Len(tbl[Min(Rows1st(tbl))]) < IndiaCol(tbl)

\* what the code's per-table function answers for each table (<<>> when it raises)
CodeResults == [i \in 1..Len(html) |-> extract_eb1_dates_from_table(html[i], bdate).val]

\* C1 (as stated): for every document the extractor returns exactly two values,
\* the first the result of the first table that yields one, the second the
\* result of the next table that yields one, None where no table fills the slot.
C1_Original ==
    extracted.pc # "loop" => (extracted.pc = "returned" /\ extracted.dates = SlotsOf(CodeResults))

\* On every document on which the extractor does return, the slots are as C1 says.
SlotsWhenReturned ==
    extracted.pc = "returned" => extracted.dates = SlotsOf(CodeResults)

\* "C" -> bulletinDate, "U" -> None, DDMonYY (7 characters) -> that date, else None
IsMonthAt(s, i) == IndexOf(MonthAbbr, Lower(SubSeq(s, i, i + 2))) > 0
Num2(a, b) == 10 * DigitVal(a) + DigitVal(b)
ClaimedDecode(s, bd) ==
    IF s = T_C THEN bd
    ELSE IF s = T_U THEN None
    ELSE IF /\ Len(s) = 7
            /\ IsDigitChar(s[1]) /\ IsDigitChar(s[2]) /\ IsMonthAt(s, 3)
            /\ IsDigitChar(s[6]) /\ IsDigitChar(s[7])
            /\ ValidDate(YearValue(Num2(s[6], s[7])), IndexOf(MonthAbbr, Lower(SubSeq(s, 3, 5))),
                         Num2(s[1], s[2]))
         THEN << YearValue(Num2(s[6], s[7])), IndexOf(MonthAbbr, Lower(SubSeq(s, 3, 5))),
                 Num2(s[1], s[2]) >>
    ELSE None
\* the same, and D Mon YY with a one-digit day (6 characters) is a date too
AmendedDecode(s, bd) ==
    IF /\ Len(s) = 6
       /\ IsDigitChar(s[1]) /\ IsMonthAt(s, 2) /\ IsDigitChar(s[5]) /\ IsDigitChar(s[6])
       /\ ValidDate(YearValue(Num2(s[5], s[6])), IndexOf(MonthAbbr, Lower(SubSeq(s, 2, 4))),
                    DigitVal(s[1]))
    THEN << YearValue(Num2(s[5], s[6])), IndexOf(MonthAbbr, Lower(SubSeq(s, 2, 4))), DigitVal(s[1]) >>
    ELSE ClaimedDecode(s, bd)

\* the document is one table: header with INDIA third, one "1st" row of three cells
IsCodeDoc ==
    /\ Len(html) = 1 /\ Len(html[1]) = 2 /\ html[1][1] = HdrIndia
    /\ Len(html[1][2]) = 3 /\ html[1][2][1] = T_1st
IndiaCode == GetTextStrip(html[1][2][3])

\* C2 (as stated): "C" decodes to bulletinDate, "U" to absent, a 7-character
\* DDMonYY code to its calendar date, every other text to absent, none raising.
C2_Original ==
    (IsCodeDoc /\ extracted.pc # "loop") =>
        (extracted.pc = "returned" /\ extracted.dates = <<ClaimedDecode(IndiaCode, bdate), None>>)

\* C2 (amended): as stated, except that a 6-character code with a one-digit
\* day (1-9), a month abbreviation and a two-digit year is a date as well.
C2_Amended ==
    (IsCodeDoc /\ extracted.pc # "loop") =>
        (extracted.pc = "returned" /\ extracted.dates = <<AmendedDecode(IndiaCode, bdate), None>>)

\* a one-digit-day code was decoded to a date
C2_Witness ==
    /\ IsCodeDoc /\ extracted.pc = "returned"
    /\ Len(IndiaCode) = 6 /\ extracted.dates[1] # None /\ extracted.dates[1] # bdate

\* C3 (as stated): extraction never raises, and gives (None, None) for a
\* document with no tables or no table whose header row has an INDIA column.
C3_Original ==
    extracted.pc # "loop" =>
        /\ extracted.pc = "returned"
        /\ Len(extracted.dates) = 2
        /\ (\A t \in 1..Len(html) : ~HeaderHasIndia(html[t])) => extracted.dates = <<None, None>>

\* C4 (as stated): a table with an INDIA column but no "1st" row, or whose first
\* "1st" row is too short, yields None and that None takes the table's slot.
ClaimedTableResult(tbl, bd) ==
    IF ~HeaderHasIndia(tbl) THEN <<>>
    ELSE IF MissingStructure(tbl) THEN <<None>>
    ELSE <<DecodeIndiaDate(GetTextStrip(tbl[Min(Rows1st(tbl))][IndiaCol(tbl)]), bd)>>
RowsUsable(tbl) == {r \in Rows1st(tbl) : Len(tbl[r]) >= IndiaCol(tbl)}
AmendedTableResult(tbl, bd) ==
    IF ~HeaderHasIndia(tbl) \/ RowsUsable(tbl) = {} THEN <<>>
    ELSE <<DecodeIndiaDate(GetTextStrip(tbl[Min(RowsUsable(tbl))][IndiaCol(tbl)]), bd)>>
MONTHS == << <<"j","a","n","u","a","r","y">>, <<"f","e","b","r","u","a","r","y">>,
             <<"m","a","r","c","h">>, <<"a","p","r","i","l">>, <<"m","a","y">>,
             <<"j","u","n","e">>, <<"j","u","l","y">>, <<"a","u","g","u","s","t">>,
             <<"s","e","p","t","e","m","b","e","r">>, <<"o","c","t","o","b","e","r">>,
             <<"n","o","v","e","m","b","e","r">>, <<"d","e","c","e","m","b","e","r">> >>
DotHtml == <<".","h","t","m","l">>

\* str(n) of an integer n >= 0
RECURSIVE Str(_)
Str(n) == IF n < 10 THEN <<Digits[n + 1]>> ELSE Str(n \div 10) \o <<Digits[(n % 10) + 1]>>
\* int(s) of a string of digits
RECURSIVE IntOf(_)
IntOf(s) == IF Len(s) = 0 THEN 0 ELSE 10 * IntOf(SubSeq(s, 1, Len(s) - 1)) + DigitVal(s[Len(s)])
\* s.isdigit()
IsDigitStr(s) == Len(s) > 0 /\ \A i \in 1..Len(s) : IsDigitChar(s[i])
\* s.endswith(suffix)
EndsWith(s, suffix) == Len(s) >= Len(suffix) /\ SubSeq(s, Len(s) - Len(suffix) + 1, Len(s)) = suffix
\* s.replace(sub, "")
RECURSIVE ReplaceWithEmpty(_, _)
ReplaceWithEmpty(s, sub) ==
    IF Len(s) < Len(sub) THEN s
    ELSE IF SubSeq(s, 1, Len(sub)) = sub THEN ReplaceWithEmpty(SubSeq(s, Len(sub) + 1, Len(s)), sub)
    ELSE <<s[1]>> \o ReplaceWithEmpty(Tail(s), sub)

\* a file of the store, relative to SAVE_DIR: <<directory name, file name>>
FilePath(year, month) == <<Str(year), month \o DotHtml>>

\* is_bulletin_saved looking for <year>/<month> without the .html suffix
is_bulletin_saved_no_suffix(st, year, month) == <<Str(year), month>> \in DOMAIN st

is_bulletin_saved(st, year, month) == FilePath(year, month) \in DOMAIN st

save_bulletin_html(st, content, year, month) ==
    [p \in DOMAIN st \cup {FilePath(year, month)} |->
        IF p = FilePath(year, month) THEN content ELSE st[p]]

\* lines 102-107: (current_year, current_month) of fetch_and_save_bulletins_for_years
CurrentYear(n) == IF n.month + 1 > 12 THEN n.year + 1 ELSE n.year
CurrentMonth(n) == IF n.month + 1 > 12 THEN n.month + 1 - 12 ELSE n.month + 1

\* the window test with >= for >: the month after the current one is skipped too
SkipsBulletinInclusive(year, month, current_year, current_month) ==
    year = current_year /\ IndexOf(MONTHS, month) - 1 >= current_month - 1

\* line 82: download_bulletin_if_needed returns at once
SkipsBulletin(year, month, current_year, current_month) ==
    year = current_year /\ IndexOf(MONTHS, month) - 1 > current_month - 1

\* line 86 answering "not saved" whatever the store holds
NeedsDownloadAlways(st, year, month) == TRUE

\* line 86
NeedsDownload(st, year, month) == ~is_bulletin_saved(st, year, month)

\* lines 114-118: the futures in submission order
SubmittedFutures(n, p) ==
    [i \in 1..(12 * (IF p >= 0 THEN p + 1 ELSE 0)) |->
        [year |-> CurrentYear(n) - p + ((i - 1) \div 12),
         month |-> MONTHS[((i - 1) % 12) + 1],
         st |-> "pending", content |-> 0]]

\* the document the server holds for a bulletin at the time of a run
ServerDocument(year, month, r) == 1 + ((IndexOf(MONTHS, month) + r) % 2)

MaxRuns == 2
NumWorkers == 2
\* the bulletins whose fetch can fail; every other fetch succeeds
FlakyMonths == { MONTHS[2] }
NowChoices == { [year |-> 2024, month |-> 2], [year |-> 2024, month |-> 12] }
PastYearsChoices == {0, 1}

Running(fs) == {i \in 1..Len(fs) : fs[i].st = "saving"}
Terminal(fs) == \A i \in 1..Len(fs) : fs[i].st \in {"done", "raised"}

\* the pool never waited for: main goes on whatever the workers are doing
PoolJoinedNoWait(fs) == TRUE

\* lines 119-120 and the end of the with block: every future has a result
PoolJoined(fs) == \A i \in 1..Len(fs) : fs[i].st = "done"

ExtractIdle ==
    /\ html = <<>>
    /\ bdate = <<2024, 1, 1>>
    /\ extracted = [pc |-> "idle", t |-> 1, dates |-> <<>>]

Init ==
    /\ now \in NowChoices
    /\ past_years \in PastYearsChoices
    /\ store = <<>>
    /\ store0 = <<>>
    /\ main_pc = "start"
    /\ futures = <<>>
    /\ exc = FALSE
    /\ netLog = {}
    /\ saveLog = {}
    /\ run = 1
    /\ bulletins = <<>>
    /\ bk = 1
    /\ series = [raised |-> FALSE, records |-> <<>>]
    /\ ExtractIdle

\* lines 102-118: main calls fetch_and_save_bulletins_for_years, which submits
Dispatch ==
    /\ main_pc = "start"
    /\ futures' = SubmittedFutures(now, past_years)
    /\ main_pc' = "join"
    /\ UNCHANGED <<now, past_years, store, store0, exc, netLog, saveLog, run, bulletins, bk, series>>
    /\ UNCHANGED extractVars

\* a worker may take the next future of the queue
CanStart(i) ==
    /\ main_pc \in {"join", "unwind", "collect", "extract", "done", "crashed"}
    /\ futures[i].st = "pending"
    /\ \A j \in 1..(i - 1) : futures[j].st # "pending"
    /\ Cardinality(Running(futures)) < NumWorkers

\* does download_bulletin_if_needed reach fetch_bulletin_html for future i
Fetches(i) ==
    /\ ~SkipsBulletin(futures[i].year, futures[i].month, CurrentYear(now), CurrentMonth(now))
    /\ NeedsDownload(store, futures[i].year, futures[i].month)

LogFetch(i) ==
    netLog' = netLog \cup {[year |-> futures[i].year, month |-> futures[i].month,
                            existed |-> FilePath(futures[i].year, futures[i].month) \in DOMAIN store]}

\* lines 81-86: download_bulletin_if_needed returns without a fetch: the
\* bulletin is beyond the window, or it is stored already
NoDownload(i) ==
    /\ CanStart(i)
    /\ ~Fetches(i)
    /\ futures' = [futures EXCEPT ![i].st = "done"]
    /\ UNCHANGED <<now, past_years, store, store0, main_pc, exc, netLog, saveLog,
                   run, bulletins, bk, series>>
    /\ UNCHANGED extractVars

\* lines 81-88, 33-36: requests.get answers 200 with the document
FetchOk(i) ==
    /\ CanStart(i)
    /\ Fetches(i)
    /\ LogFetch(i)
    /\ futures' = [futures EXCEPT ![i].st = "saving",
                                  ![i].content = ServerDocument(futures[i].year, futures[i].month, run)]
    /\ UNCHANGED <<now, past_years, store, store0, main_pc, exc, saveLog, run, bulletins, bk, series>>
    /\ UNCHANGED extractVars

\* lines 81-88, 35-37, 91-92: a status other than 200, or 200 with an empty body
FetchNone(i) ==
    /\ CanStart(i)
    /\ Fetches(i)
    /\ futures[i].month \in FlakyMonths
    /\ LogFetch(i)
    /\ futures' = [futures EXCEPT ![i].st = "done"]
    /\ UNCHANGED <<now, past_years, store, store0, main_pc, exc, saveLog, run, bulletins, bk, series>>
    /\ UNCHANGED extractVars

\* lines 81-87, 34: requests.get raises (no connection, timeout): the future
\* holds the exception
FetchRaises(i) ==
    /\ CanStart(i)
    /\ Fetches(i)
    /\ futures[i].month \in FlakyMonths
    /\ LogFetch(i)
    /\ futures' = [futures EXCEPT ![i].st = "raised"]
    /\ UNCHANGED <<now, past_years, store, store0, main_pc, exc, saveLog, run, bulletins, bk, series>>
    /\ UNCHANGED extractVars

\* lines 89-90, 49-53: save_bulletin_html
SaveBulletin(i) ==
    /\ futures[i].st = "saving"
    /\ store' = save_bulletin_html(store, futures[i].content, futures[i].year, futures[i].month)
    /\ saveLog' = saveLog \cup {[year |-> futures[i].year, month |-> futures[i].month]}
    /\ futures' = [futures EXCEPT ![i].st = "done"]
    /\ UNCHANGED <<now, past_years, store0, main_pc, exc, netLog, run, bulletins, bk, series>>
    /\ UNCHANGED extractVars

(***************************************************************************)
(* The corpus scan                                                         *)
(***************************************************************************)
\* the documents a stored file can hold, by content id: the parse of the file
DocExample == <<TblDate1, TblDate2>>
DocFamilyFirst == <<TblNo1st, TblC, TblU>>
DocRowless == <<TblNoIndia, TblNoRows>>
Corpus == <<DocExample, DocFamilyFirst, DocRowless>>
\* lines 171-172: BeautifulSoup(content, "html.parser").find_all("table")
ParseTables(content) == Corpus[content]

\* os.path.join(root, file) below SAVE_DIR
PathStr(path) == path[1] \o <<"/">> \o path[2]
\* the characters of a path in code-point order
CodePointOrder == <<".", "/">> \o Digits \o LowerLetters
RECURSIVE StrLess(_, _)
StrLess(a, b) == IF Len(b) = 0 THEN FALSE
                 ELSE IF Len(a) = 0 THEN TRUE
                 ELSE IF a[1] = b[1] THEN StrLess(Tail(a), Tail(b))
                 ELSE IndexOf(CodePointOrder, a[1]) < IndexOf(CodePointOrder, b[1])
\* (bulletin_date, file_path) < (bulletin_date, file_path)
BulletinLess(x, y) == \/ DateLess(x.date, y.date)
                      \/ x.date = y.date /\ StrLess(PathStr(x.path), PathStr(y.path))

\* line 205: bulletins.sort(): the elements (distinct, as the paths are) in
\* ascending order; the element at place i has i - 1 elements below it
SortBulletins(list) ==
    [i \in 1..Len(list) |->
        list[CHOOSE j \in 1..Len(list) :
                Cardinality({k \in 1..Len(list) : BulletinLess(list[k], list[j])}) = i - 1]]

\* lines 194-203 for one file of one directory: nothing, an entry, or ValueError
WalkFile(path, year_now, p) ==
    LET year == path[1]
        file == path[2]
    IN IF ~IsDigitStr(year) \/ IntOf(year) < year_now - p
       THEN [raised |-> FALSE, val |-> <<>>]
       ELSE IF EndsWith(file, DotHtml) /\ IndexOf(MONTHS, ReplaceWithEmpty(file, DotHtml)) > 0
       THEN IF ValidDate(IntOf(year), IndexOf(MONTHS, ReplaceWithEmpty(file, DotHtml)), 1)
            THEN [raised |-> FALSE,
                  val |-> <<[date |-> <<IntOf(year), IndexOf(MONTHS, ReplaceWithEmpty(file, DotHtml)), 1>>,
                             path |-> path]>>]
            ELSE [raised |-> TRUE, val |-> <<>>]
       ELSE [raised |-> FALSE, val |-> <<>>]

\* lines 192-203: the walk over the files in the order os.walk gives them
RECURSIVE WalkFiles(_, _, _, _, _)
WalkFiles(order, k, found, year_now, p) ==
    IF k > Len(order) THEN [raised |-> FALSE, bulletins |-> found]
    ELSE IF WalkFile(order[k], year_now, p).raised THEN [raised |-> TRUE, bulletins |-> <<>>]
    ELSE WalkFiles(order, k + 1, found \o WalkFile(order[k], year_now, p).val, year_now, p)

\* x.date() if x else "N/A"
NA == <<"N/A">>
DateOrNA(x) == IF x = None THEN NA ELSE x

\* eb1_dates[key] = value on an insertion-ordered dict
DictPut(dict, rec) ==
    IF \E i \in 1..Len(dict) : dict[i].bulletin_date = rec.bulletin_date
    THEN [i \in 1..Len(dict) |-> IF dict[i].bulletin_date = rec.bulletin_date THEN rec ELSE dict[i]]
    ELSE Append(dict, rec)

\* the enumerations os.walk can give: one directory after the other, the
\* directories and the files of a directory in any order
Enumerations(files) ==
    {o \in [1..Cardinality(files) -> files] :
        /\ \A x \in files : \E i \in 1..Cardinality(files) : o[i] = x
        /\ \A i, j, k \in 1..Cardinality(files) :
              (i < j /\ j < k /\ o[i][1] = o[k][1]) => o[j][1] = o[i][1]}

\* two of them, for a store of any size: by path ascending, and descending
ByPath(files) ==
    [i \in 1..Cardinality(files) |->
        CHOOSE x \in files :
            Cardinality({y \in files : StrLess(PathStr(y), PathStr(x))}) = i - 1]
Reversed(seq) == [i \in 1..Len(seq) |-> seq[Len(seq) + 1 - i]]

MaxWalkFiles == 3
\* every enumeration of a store of at most MaxWalkFiles files, two of a larger one
WalkOrders(files) ==
    IF Cardinality(files) <= MaxWalkFiles THEN Enumerations(files)
    ELSE {ByPath(files), Reversed(ByPath(files))}

(***************************************************************************)
(* main                                                                    *)
(***************************************************************************)
\* line 120: future.result() re-raises the exception of the first failed future
JoinRaise ==
    /\ main_pc = "join"
    /\ \E i \in 1..Len(futures) :
          /\ futures[i].st = "raised"
          /\ \A j \in 1..(i - 1) : futures[j].st = "done"
    /\ exc' = TRUE
    /\ main_pc' = "unwind"
    /\ UNCHANGED <<now, past_years, store, store0, futures, netLog, saveLog, run,
                   bulletins, bk, series>>
    /\ UNCHANGED extractVars

\* line 113: leaving the with block on the exception waits for the pool
\* (shutdown(wait=True)); the exception then leaves main
Unwind ==
    /\ main_pc = "unwind"
    /\ Terminal(futures)
    /\ main_pc' = "crashed"
    /\ UNCHANGED <<now, past_years, store, store0, futures, exc, netLog, saveLog, run,
                   bulletins, bk, series>>
    /\ UNCHANGED extractVars

\* lines 119-120, 113: every future gave its result; the with block ends and
\* fetch_and_save_bulletins_for_years returns
JoinAll ==
    /\ main_pc = "join"
    /\ PoolJoined(futures)
    /\ main_pc' = "collect"
    /\ UNCHANGED <<now, past_years, store, store0, futures, exc, netLog, saveLog, run,
                   bulletins, bk, series>>
    /\ UNCHANGED extractVars

\* lines 192-205 of collect_and_plot_eb1_dates: the walk and the sort
CollectWalk ==
    /\ main_pc = "collect"
    /\ \E order \in WalkOrders(DOMAIN store) :
       \E w \in {WalkFiles(order, 1, <<>>, now.year, past_years)} :
          /\ bulletins' = IF w.raised THEN <<>> ELSE SortBulletins(w.bulletins)
          /\ series' = [raised |-> w.raised, records |-> <<>>]
          /\ main_pc' = IF w.raised THEN "crashed" ELSE "extract"
    /\ bk' = 1
    /\ UNCHANGED <<now, past_years, store, store0, futures, exc, netLog, saveLog, run>>
    /\ UNCHANGED extractVars

\* lines 208-216: one iteration of  for bulletin_date, file_path in bulletins
CollectExtract ==
    /\ main_pc = "extract"
    /\ bk <= Len(bulletins)
    /\ \E e \in {extract_eb1_final_action_and_filing_dates_from_html(
                    ParseTables(store[bulletins[bk].path]), bulletins[bk].date)} :
          /\ series' = IF e.raised THEN [raised |-> TRUE, records |-> <<>>]
                       ELSE [raised |-> FALSE,
                             records |-> DictPut(series.records,
                                            [bulletin_date |-> bulletins[bk].date,
                                             final_action_date |-> DateOrNA(e.dates[1]),
                                             filing_date |-> DateOrNA(e.dates[2])])]
          /\ main_pc' = IF e.raised THEN "crashed" ELSE "extract"
    /\ bk' = bk + 1
    /\ UNCHANGED <<now, past_years, store, store0, futures, exc, netLog, saveLog, run,
                   bulletins>>
    /\ UNCHANGED extractVars

\* line 218: plot_eb1_progression(eb1_dates); main returns
CollectPlot ==
    /\ main_pc = "extract"
    /\ bk > Len(bulletins)
    /\ main_pc' = "done"
    /\ UNCHANGED <<now, past_years, store, store0, futures, exc, netLog, saveLog, run,
                   bulletins, bk, series>>
    /\ UNCHANGED extractVars

\* the program is run again with the same argument, at the same date or a later one
NewRun ==
    /\ main_pc \in {"done", "crashed"}
    /\ Terminal(futures)
    /\ run < MaxRuns
    /\ run' = run + 1
    /\ now' \in {n \in NowChoices : n.year > now.year \/ (n.year = now.year /\ n.month >= now.month)}
    /\ past_years' = past_years
    /\ main_pc' = "start"
    /\ futures' = <<>>
    /\ exc' = FALSE
    /\ bulletins' = <<>>
    /\ bk' = 1
    /\ series' = [raised |-> FALSE, records |-> <<>>]
    /\ store0' = store
    /\ netLog' = {}
    /\ saveLog' = {}
    /\ UNCHANGED store
    /\ UNCHANGED extractVars

Worker == \E i \in 1..Len(futures) :
              NoDownload(i) \/ FetchOk(i) \/ FetchNone(i) \/ FetchRaises(i) \/ SaveBulletin(i)

Next == \/ Dispatch \/ Worker \/ JoinRaise \/ Unwind \/ JoinAll
        \/ CollectWalk \/ CollectExtract \/ CollectPlot \/ NewRun

Spec == Init /\ [][Next]_vars

(***************************************************************************)
(* The corpus scan on its own: any small store, every enumeration          *)
(***************************************************************************)
D_2022 == <<"2","0","2","2">>
D_2023 == <<"2","0","2","3">>
D_2024 == <<"2","0","2","4">>
ScanPaths == { <<D_2024, MONTHS[1] \o DotHtml>>,
               <<D_2024, MONTHS[3] \o DotHtml>>,
               <<D_2023, MONTHS[12] \o DotHtml>>,
               <<D_2022, MONTHS[6] \o DotHtml>>,
               <<D_2024, <<"n","o","t","e","s",".","t","x","t">> >>,
               <<D_2024, <<"s">> \o MONTHS[3] \o DotHtml>>,
               <<D_2024, MONTHS[3] \o DotHtml \o DotHtml>>,
               <<<<"t","m","p">>, MONTHS[1] \o DotHtml>>,
               <<<<"0">> \o D_2024, MONTHS[1] \o DotHtml>>,
               <<<<"1","0","0","0","0">>, MONTHS[5] \o DotHtml>> }
ScanStores == UNION { [S -> 1..Len(Corpus)] :
                        S \in {T \in SUBSET ScanPaths : Cardinality(T) <= MaxWalkFiles} }

InitScan ==
    /\ now = [year |-> 2024, month |-> 12]
    /\ past_years \in PastYearsChoices \cup {2}
    /\ store \in ScanStores
    /\ store0 = store
    /\ main_pc = "collect"
    /\ futures = <<>>
    /\ exc = FALSE
    /\ netLog = {}
    /\ saveLog = {}
    /\ run = 1
    /\ bulletins = <<>>
    /\ bk = 1
    /\ series = [raised |-> FALSE, records |-> <<>>]
    /\ ExtractIdle

NextScan == CollectWalk \/ CollectExtract \/ CollectPlot

SpecScan == InitScan /\ [][NextScan]_vars

(***************************************************************************)
(* Claims about the fetch phase and main (checked under Spec)              *)
(***************************************************************************)
\* the calendar month after the current one
NextMonthKey(n) == IF n.month = 12 THEN [year |-> n.year + 1, m |-> 1]
                   ELSE [year |-> n.year, m |-> n.month + 1]
KeyLater(year, m, k) == year > k.year \/ (year = k.year /\ m > k.m)
\* the keys the fetch phase is to consider: past_years years back, up to next month
InWindowKeys(n, p) ==
    {k \in ((NextMonthKey(n).year - p)..NextMonthKey(n).year) \X (1..12) :
        ~KeyLater(k[1], k[2], NextMonthKey(n))}
FetchPhaseOver == main_pc \in {"collect", "extract", "done", "crashed"}
ExtractionStarted == main_pc \in {"collect", "extract", "done"} \/ (main_pc = "crashed" /\ ~exc)

\* C5: no network fetch is issued for a key whose document is in the store, and
\* a fetch phase started with every in-window key stored fetches nothing and
\* leaves the store as it was.
C5_FetchIdempotent ==
    /\ \A e \in netLog : ~e.existed
    /\ (FetchPhaseOver /\ \A k \in InWindowKeys(now, past_years) :
                              FilePath(k[1], MONTHS[k[2]]) \in DOMAIN store0)
          => (netLog = {} /\ store = store0)

\* a second run over a window that was stored in full ended its fetch phase
C5_Witness ==
    /\ run = 2 /\ FetchPhaseOver /\ past_years = 1
    /\ \A k \in InWindowKeys(now, past_years) : FilePath(k[1], MONTHS[k[2]]) \in DOMAIN store0
    /\ netLog = {} /\ store = store0

\* C6 (as stated): a failed fetch, by a transport failure or a non-success
\* response, is never fatal: the key stays without a document, every other
\* future runs to completion, and main goes on to the extraction.
C6_Original ==
    /\ main_pc = "crashed" => ~exc
    /\ FetchPhaseOver =>
          /\ Terminal(futures)
          /\ \A i \in 1..Len(futures) :
                (futures[i].content = 0 /\ FilePath(futures[i].year, futures[i].month) \notin DOMAIN store0)
                    => FilePath(futures[i].year, futures[i].month) \notin DOMAIN store

\* C8: no fetch and no save is issued for a key later than the month after the
\* current month, and the key of that month is considered: when the fetch phase
\* is over it was stored before or a fetch was issued for it.
C8_WindowBound ==
    /\ \A e \in netLog \cup saveLog :
          ~KeyLater(e.year, IndexOf(MONTHS, e.month), NextMonthKey(now))
    /\ FetchPhaseOver =>
          \/ FilePath(NextMonthKey(now).year, MONTHS[NextMonthKey(now).m]) \in DOMAIN store0
          \/ \E e \in netLog : e.year = NextMonthKey(now).year /\ e.month = MONTHS[NextMonthKey(now).m]

\* run in December, the phase saved the bulletin of January of the next year
C8_Witness ==
    /\ now.month = 12 /\ FetchPhaseOver
    /\ [year |-> now.year + 1, month |-> MONTHS[1]] \in saveLog

\* C9: when the extraction starts, every future is over, the store holds the
\* document of every fetch that succeeded, and no document for a key that was
\* not stored before and whose fetch failed or was skipped.
C9_Barrier ==
    ExtractionStarted =>
        /\ Terminal(futures)
        /\ \A i \in 1..Len(futures) :
              LET path == FilePath(futures[i].year, futures[i].month) IN
              /\ futures[i].content # 0 => (path \in DOMAIN store /\ store[path] = futures[i].content)
              /\ (futures[i].content = 0 /\ path \notin DOMAIN store0) => path \notin DOMAIN store

\* the extraction is about to read a store that one fetch filled and another,
\* failed, left empty
C9_Witness ==
    /\ main_pc = "collect"
    /\ \E i \in 1..Len(futures) : futures[i].content # 0
    /\ \E e \in netLog : FilePath(e.year, e.month) \notin DOMAIN store

\* C10: the futures of one fetch phase have distinct keys, and no step of any
\* run removes a stored document or changes its content.
C10_WriteOnce ==
    [][ /\ futures' # futures =>
              \A i, j \in 1..Len(futures') :
                 (futures'[i].year = futures'[j].year /\ futures'[i].month = futures'[j].month) => i = j
        /\ store' # store =>
              \A path \in DOMAIN store : path \in DOMAIN store' /\ store'[path] = store[path]
      ]_vars

\* in a second run two workers are about to write, while the window holds a
\* document stored by the first run
C10_Witness ==
    /\ run = 2
    /\ \E i, j \in 1..Len(futures) :
          i # j /\ futures[i].st = "saving" /\ futures[j].st = "saving"
    /\ \E i \in 1..Len(futures) :
          /\ FilePath(futures[i].year, futures[i].month) \in DOMAIN store0
          /\ ~SkipsBulletin(futures[i].year, futures[i].month, CurrentYear(now), CurrentMonth(now))

(***************************************************************************)
(* Claims about the corpus scan (checked under SpecScan)                   *)
(***************************************************************************)
\* a directory named by a year datetime accepts, not before the window
IsYearDir(d, year_now, p) ==
    IsDigitStr(d) /\ IntOf(d) >= 1 /\ IntOf(d) <= 9999 /\ IntOf(d) >= year_now - p
\* a file named <month>.html
IsMonthFile(f) == \E m \in 1..12 : f = MONTHS[m] \o DotHtml
Qualifying == {path \in DOMAIN store : IsYearDir(path[1], now.year, past_years) /\ IsMonthFile(path[2])}
KeyDate(path) == <<IntOf(path[1]), CHOOSE m \in 1..12 : path[2] = MONTHS[m] \o DotHtml, 1>>

\* C7 (as stated): the series holds exactly one record for every stored file
\* <valid year within the window>/<month>.html, files of any other name are
\* left out without an error, and the records ascend strictly by bulletin date.
C7_Original ==
    main_pc \in {"done", "crashed"} =>
        /\ ~series.raised
        /\ Len(series.records) = Cardinality(Qualifying)
        /\ \A path \in Qualifying :
              \E i \in 1..Len(series.records) : series.records[i].bulletin_date = KeyDate(path)
        /\ \A i \in 1..(Len(series.records) - 1) :
              DateLess(series.records[i].bulletin_date, series.records[i + 1].bulletin_date)

\* What the scan does give when it ends without an exception: the records
\* ascend strictly, whatever the enumeration, and their dates are those of the
\* files the walk accepted.
SeriesWhenCollected ==
    main_pc = "done" =>
        /\ \A i \in 1..(Len(series.records) - 1) :
              DateLess(series.records[i].bulletin_date, series.records[i + 1].bulletin_date)
        /\ {series.records[i].bulletin_date : i \in 1..Len(series.records)}
              = {bulletins[i].date : i \in 1..Len(bulletins)}
        /\ \A path \in Qualifying : \E i \in 1..Len(bulletins) : bulletins[i].path = path

====
